---- MODULE Spec2Model ----
(***************************************************************************)
(* Model of the log-dispatch pipeline of error-logging-service:            *)
(* the Logger singleton (init / getInstance / reset), the management       *)
(* operations (addPlugin / addTransport / removeTransport), the severity   *)
(* gated logging methods and the asynchronous log / dispatch core.         *)
(*                                                                         *)
(* JavaScript runs to completion: every synchronous piece of code (a       *)
(* caller's method call, a continuation after an await, a promise          *)
(* reaction) is one atomic action.  Plugins and transports are supplied    *)
(* by the user, so what they return, throw, resolve or reject is chosen    *)
(* nondeterministically at each invocation.                                *)
(***************************************************************************)
EXTENDS Integers, Sequences, FiniteSets, TLC

(* ---- bounds of the model ---- *)
MaxCalls == 2
MaxLoggers == 2
MaxOps == 2

(* ---- LogLevel (core/LogLevel.ts) ---- *)
DEBUG == 0
INFO == 1
WARN == 2
ERROR == 3
FATAL == 4
LogLevel == {DEBUG, INFO, WARN, ERROR, FATAL}

(* ---- values ---- *)
Undefined == -1      \* an absent option of LoggerConfig
NoArray == 0         \* an absent array option of LoggerConfig
Null == 0            \* Logger.instance = null

(* Transport objects the caller owns.  Objects 1 and 3 carry the same name. *)
Transports == {1, 2, 3}
TransportName(t) == IF t = 2 THEN "b" ELSE "a"
Names == {"a", "b", "c"}

(* Plugin functions the caller owns. *)
Plugins == {1, 2}

VARIABLES
    instance,     \* Logger.instance: Null or the index of a logger in loggers
    loggers,      \* every Logger object constructed so far: its this.config
    heap,         \* the arrays of the program; config fields hold indices into it
    userConfig,   \* the LoggerConfig value the caller keeps and passes to init
    calls,        \* one record per invocation of Logger.log
    ops,          \* number of add / remove calls that changed a collection so far
    lastOp,       \* the last lifecycle / management call and what its caller saw
    console       \* one record per invocation of ConsoleTransport.send

vars == <<instance, loggers, heap, userConfig, calls, ops, lastOp, console>>

(* ---- the heap of arrays.  Cells 1 and 2 hold the arrays of the caller's  *)
(* LoggerConfig value; every logger has one cell per config field for the   *)
(* array it allocates itself (the [] default, the result of filter).  An    *)
(* array a logger allocated is referenced by that logger's field only, so   *)
(* the cell is reused when the field is assigned a new array.               *)
UserT == 1
UserP == 2
OwnT(l) == 2 * l + 1
OwnP(l) == 2 * l + 2
HeapSize == 2 * MaxLoggers + 2

(* ---- the LoggerConfig values of the caller ---- *)
UserConfigs ==
    { [minLevel |-> Undefined, transports |-> <<>>, plugins |-> <<>>, hasT |-> FALSE, hasP |-> FALSE],
      [minLevel |-> WARN, transports |-> <<1, 2>>, plugins |-> <<1, 2>>, hasT |-> TRUE, hasP |-> TRUE],
      [minLevel |-> Undefined, transports |-> <<1, 3>>, plugins |-> <<>>, hasT |-> TRUE, hasP |-> FALSE] }

(* Logger.init({}) : every option absent *)
EmptyConfig == [minLevel |-> Undefined, transports |-> NoArray, plugins |-> NoArray]

Op(name, result, ret) == [op |-> name, result |-> result, ret |-> ret]

(* ---- Logger.resolveConfig on behalf of the logger being constructed (l):  *)
(* defaults for absent options.  A present array option is stored as it is   *)
(* (the same array object), an absent one becomes a fresh [] literal.        *)
(* generateId is resolved too but nothing reads it.                          *)
resolveConfig(config, l) ==
    [minLevel |-> IF config.minLevel = Undefined THEN DEBUG ELSE config.minLevel,
     transports |-> IF config.transports = NoArray THEN OwnT(l) ELSE config.transports,
     plugins |-> IF config.plugins = NoArray THEN OwnP(l) ELSE config.plugins]

(* ---- initial state: no instance, no logger constructed, no call made.    *)
(* The caller holds one LoggerConfig value whose array options, when given, *)
(* are arrays of the heap.                                                  *)
Init ==
    /\ instance = Null
    /\ loggers = <<>>
    /\ calls = <<>>
    /\ ops = 0
    /\ lastOp = Op("none", "ok", 0)
    /\ console = <<>>
    /\ \E u \in UserConfigs :
          /\ heap = [a \in 1..HeapSize |->
                        IF a = UserT THEN u.transports
                        ELSE IF a = UserP THEN u.plugins ELSE <<>>]
          /\ userConfig = [minLevel |-> u.minLevel,
                           transports |-> IF u.hasT THEN UserT ELSE NoArray,
                           plugins |-> IF u.hasP THEN UserP ELSE NoArray]

(* init without the guard: a second call replaces the active instance *)
initOverwrite(config) ==
    /\ Len(loggers) < MaxLoggers
    /\ loggers' = Append(loggers, resolveConfig(config, Len(loggers) + 1))
    /\ instance' = Len(loggers) + 1
    /\ lastOp' = Op("init", "ok", Len(loggers) + 1)
    /\ UNCHANGED <<heap, userConfig, calls, ops, console>>

(* ---- static Logger.init(config) ---- *)
init(config) ==
    IF instance # Null
    THEN /\ lastOp' = Op("init", "AlreadyInitialized", 0)
         /\ UNCHANGED <<instance, loggers, heap, userConfig, calls, ops, console>>
    ELSE /\ Len(loggers) < MaxLoggers
         /\ loggers' = Append(loggers, resolveConfig(config, Len(loggers) + 1))
         /\ instance' = Len(loggers) + 1
         /\ lastOp' = Op("init", "ok", Len(loggers) + 1)
         /\ UNCHANGED <<heap, userConfig, calls, ops, console>>

(* getInstance without the guard: hands out Logger.instance whatever it is *)
getInstanceUnchecked ==
    /\ lastOp' = Op("getInstance", "ok", instance)
    /\ UNCHANGED <<instance, loggers, heap, userConfig, calls, ops, console>>

(* getInstance that hands out the logger the first init constructed, kept *)
(* across reset                                                           *)
getInstanceFirst ==
    /\ lastOp' = IF instance = Null
                 THEN Op("getInstance", "NotInitialized", 0)
                 ELSE Op("getInstance", "ok", 1)
    /\ UNCHANGED <<instance, loggers, heap, userConfig, calls, ops, console>>

(* ---- static Logger.getInstance() ---- *)
getInstance ==
    /\ lastOp' = IF instance = Null
                 THEN Op("getInstance", "NotInitialized", 0)
                 ELSE Op("getInstance", "ok", instance)
    /\ UNCHANGED <<instance, loggers, heap, userConfig, calls, ops, console>>

(* reset that refuses when no instance is active *)
resetStrict ==
    IF instance = Null
    THEN /\ lastOp' = Op("reset", "NotInitialized", 0)
         /\ UNCHANGED <<instance, loggers, heap, userConfig, calls, ops, console>>
    ELSE /\ instance' = Null
         /\ lastOp' = Op("reset", "ok", 0)
         /\ UNCHANGED <<loggers, heap, userConfig, calls, ops, console>>

(* ---- static Logger.reset() ---- *)
reset ==
    /\ instance' = Null
    /\ lastOp' = Op("reset", "ok", 0)
    /\ UNCHANGED <<loggers, heap, userConfig, calls, ops, console>>

(* addPlugin that puts the plugin at the front of the chain (unshift) *)
addPluginFront(l, p) ==
    /\ ops < MaxOps
    /\ ops' = ops + 1
    /\ heap' = [heap EXCEPT ![loggers[l].plugins] = <<p>> \o @]
    /\ lastOp' = Op("addPlugin", "ok", 0)
    /\ UNCHANGED <<instance, loggers, userConfig, calls, console>>

(* addPlugin that builds a new array and assigns it to the config field    *)
(* (plugins = [...plugins, plugin]), as removeTransport does with filter   *)
addPluginCopy(l, p) ==
    /\ ops < MaxOps
    /\ ops' = ops + 1
    /\ heap' = [heap EXCEPT ![OwnP(l)] = Append(heap[loggers[l].plugins], p)]
    /\ loggers' = [loggers EXCEPT ![l].plugins = OwnP(l)]
    /\ lastOp' = Op("addPlugin", "ok", 0)
    /\ UNCHANGED <<instance, userConfig, calls, console>>

(* ---- Logger.addPlugin(plugin): push onto this.config.plugins ---- *)
addPlugin(l, p) ==
    /\ ops < MaxOps
    /\ ops' = ops + 1
    /\ heap' = [heap EXCEPT ![loggers[l].plugins] = Append(@, p)]
    /\ lastOp' = Op("addPlugin", "ok", 0)
    /\ UNCHANGED <<instance, loggers, userConfig, calls, console>>

(* ---- Logger.addTransport(transport) ---- *)
exists(ts, t) == \E i \in 1..Len(ts) : TransportName(ts[i]) = TransportName(t)

(* addTransport that replaces the registered transport of the same name *)
addTransportReplace(l, t) ==
    /\ ops < MaxOps
    /\ ops' = ops + 1
    /\ heap' = [heap EXCEPT ![loggers[l].transports] =
                   IF exists(@, t)
                   THEN [i \in 1..Len(@) |->
                            IF TransportName(@[i]) = TransportName(t) THEN t ELSE @[i]]
                   ELSE Append(@, t)]
    /\ lastOp' = Op("addTransport", "ok", 0)
    /\ UNCHANGED <<instance, loggers, userConfig, calls, console>>

addTransport(l, t) ==
    IF exists(heap[loggers[l].transports], t)
    THEN /\ lastOp' = Op("addTransport", "Duplicate", 0)
         /\ UNCHANGED <<instance, loggers, heap, userConfig, calls, ops, console>>
    ELSE /\ ops < MaxOps
         /\ ops' = ops + 1
         /\ heap' = [heap EXCEPT ![loggers[l].transports] = Append(@, t)]
         /\ lastOp' = Op("addTransport", "ok", 0)
         /\ UNCHANGED <<instance, loggers, userConfig, calls, console>>

(* ---- Logger.removeTransport(name): filter builds a new array and the ---- *)
(* config field is set to it                                               *)
filter(ts, name) == SelectSeq(ts, LAMBDA t : TransportName(t) # name)

(* removeTransport that refuses a name no registered transport has *)
removeTransportStrict(l, name) ==
    IF \A i \in 1..Len(heap[loggers[l].transports]) :
           TransportName(heap[loggers[l].transports][i]) # name
    THEN /\ lastOp' = Op("removeTransport", "NotFound", 0)
         /\ UNCHANGED <<instance, loggers, heap, userConfig, calls, ops, console>>
    ELSE /\ ops < MaxOps
         /\ ops' = ops + 1
         /\ heap' = [heap EXCEPT ![OwnT(l)] = filter(heap[loggers[l].transports], name)]
         /\ loggers' = [loggers EXCEPT ![l].transports = OwnT(l)]
         /\ lastOp' = Op("removeTransport", "ok", 0)
         /\ UNCHANGED <<instance, userConfig, calls, console>>

(* removeTransport that drops the array filter returns *)
removeTransportDiscard(l, name) ==
    /\ ops < MaxOps
    /\ ops' = ops + 1
    /\ lastOp' = Op("removeTransport", "ok", 0)
    /\ UNCHANGED <<instance, loggers, heap, userConfig, calls, console>>

removeTransport(l, name) ==
    /\ ops < MaxOps
    /\ ops' = ops + 1
    /\ heap' = [heap EXCEPT ![OwnT(l)] = filter(heap[loggers[l].transports], name)]
    /\ loggers' = [loggers EXCEPT ![l].transports = OwnT(l)]
    /\ lastOp' = Op("removeTransport", "ok", 0)
    /\ UNCHANGED <<instance, userConfig, calls, console>>

(* ---- LogEntry ---- *)
NoError == 0
NullEntry == [level |-> Undefined, message |-> "", error |-> NoError, context |-> <<>>]

(* createLogEntry(params): the fields of params (the timestamp is not modelled) *)
createLogEntry(level, message, error, context) ==
    [level |-> level, message |-> message, error |-> error, context |-> context]

(* dispatch that awaits each send in turn: only the first transport is   *)
(* invoked at once, a failure of it ends the loop                       *)
dispatchInTurn(entry, ts, throwAt) ==
    [i \in 1..(IF Len(ts) > 0 THEN 1 ELSE 0) |->
        [transport |-> ts[i],
         entry |-> entry,
         st |-> IF i = throwAt THEN "threw" ELSE "pending",
         reported |-> <<>>]]

(* ---- Logger.dispatch(entry): transports.map(t => t.send(entry).catch(..)). *)
(* send is invoked on the transports in array order; throwAt is the position  *)
(* of the first transport whose send throws synchronously (0: none does),     *)
(* which ends the map there.                                                  *)
dispatch(entry, ts, throwAt) ==
    LET n == IF throwAt \in 1..Len(ts) THEN throwAt ELSE Len(ts)
    IN  [i \in 1..n |-> [transport |-> ts[i],
                         entry |-> entry,
                         st |-> IF i = throwAt THEN "threw" ELSE "pending",
                         reported |-> <<>>]]

(* ---- the body of the for...of loop of Logger.log from the point where the *)
(* iterator is asked for its next plugin: either the next plugin is invoked  *)
(* (and the call suspends in await, or the plugin throws), or the loop ends  *)
(* and dispatch runs.                                                        *)
iterate(cr, sthrow, throwAt) ==
    LET arr == heap[cr.iter]
        ts == heap[loggers[cr.logger].transports]
    IN  IF cr.idx < Len(arr)
        THEN [cr EXCEPT !.idx = cr.idx + 1,
                        !.stages = Append(@, [plugin |-> arr[cr.idx + 1],
                                              in |-> cr.entry,
                                              out |-> NullEntry,
                                              st |-> IF sthrow THEN "threw" ELSE "running"]),
                        !.status = IF sthrow THEN "rejected" ELSE "await"]
        ELSE [cr EXCEPT !.sends = dispatch(cr.entry, ts, throwAt),
                        !.status = IF throwAt \in 1..Len(ts) THEN "rejected" ELSE "resolved"]

(* log without the threshold test *)
logNoGate(l, level, message, error, context, sthrow, throwAt) ==
    iterate([logger |-> l, level |-> level, message |-> message,
             error |-> error, context |-> context,
             status |-> "skipped", iter |-> loggers[l].plugins, idx |-> 0,
             entry |-> createLogEntry(level, message, error, context),
             stages |-> <<>>, sends |-> <<>>, seen |-> "pending"],
            sthrow, throwAt)

(* log that yields once before it dispatches when there is no plugin (an   *)
(* `await` in front of dispatch, recorded as a stage of no plugin)         *)
logDeferred(l, level, message, error, context, sthrow, throwAt) ==
    LET cr == [logger |-> l, level |-> level, message |-> message,
               error |-> error, context |-> context,
               status |-> "skipped", iter |-> loggers[l].plugins, idx |-> 0,
               entry |-> NullEntry, stages |-> <<>>, sends |-> <<>>,
               seen |-> "pending"]
        entry == createLogEntry(level, message, error, context)
    IN  IF level < loggers[l].minLevel
        THEN cr
        ELSE IF heap[loggers[l].plugins] = <<>>
        THEN [cr EXCEPT !.entry = entry, !.status = "await",
                        !.stages = <<[plugin |-> 0, in |-> entry,
                                      out |-> NullEntry, st |-> "running"]>>]
        ELSE iterate([cr EXCEPT !.entry = entry], sthrow, throwAt)

(* log of a logger that gives up its stage chain once a stage has failed: *)
(* when an earlier call of this logger has a stage that threw, rejected   *)
(* or gave null, the chain is bypassed and the entry goes to dispatch     *)
logBreaker(l, level, message, error, context, sthrow, throwAt) ==
    LET cr == [logger |-> l, level |-> level, message |-> message,
               error |-> error, context |-> context,
               status |-> "skipped", iter |-> loggers[l].plugins, idx |-> 0,
               entry |-> NullEntry, stages |-> <<>>, sends |-> <<>>,
               seen |-> "pending"]
        tripped == \E c \in 1..Len(calls) :
                      /\ calls[c].logger = l
                      /\ calls[c].status \in {"rejected", "dropped"}
                      /\ calls[c].stages # <<>>
    IN  IF level < loggers[l].minLevel
        THEN cr
        ELSE iterate([cr EXCEPT !.entry = createLogEntry(level, message, error, context),
                                !.idx = IF tripped THEN Len(heap[loggers[l].plugins]) ELSE 0],
                     sthrow, throwAt)

(* ---- Logger.log(level, message, extras) up to its first await.  The    *)
(* record of a call:                                                       *)
(*   logger, level, message, error, context : the receiver and arguments   *)
(*   iter, idx : the array the for...of iterator walks and its position    *)
(*   entry     : processedEntry                                            *)
(*   stages    : one record per plugin invocation: the plugin, the entry   *)
(*               passed in, the entry it resolved to, and its state        *)
(*               (running, returned, threw, rejected)                      *)
(*   sends     : one record per send invocation of dispatch: the transport,*)
(*               the entry, the state of the promise (pending, rejected;   *)
(*               threw: no promise, send threw) and the console.error      *)
(*               reports of the catch handler                              *)
(*   status    : skipped (below minLevel), await (suspended in the loop),  *)
(*               dropped (a plugin gave null), resolved (dispatch ran),    *)
(*               rejected (the promise of log is rejected)                 *)
(*   seen      : what the caller of the logging method got: "returned"     *)
(*               (undefined), as opposed to a thrown error or a promise    *)
log(l, level, message, error, context, sthrow, throwAt) ==
    LET cr == [logger |-> l, level |-> level, message |-> message,
               error |-> error, context |-> context,
               status |-> "skipped", iter |-> loggers[l].plugins, idx |-> 0,
               entry |-> NullEntry, stages |-> <<>>, sends |-> <<>>,
               seen |-> "pending"]
    IN  IF level < loggers[l].minLevel
        THEN cr
        ELSE iterate([cr EXCEPT !.entry = createLogEntry(level, message, error, context)],
                  sthrow, throwAt)

(* ---- what the plugin or the transports invoked by one turn of the loop *)
(* do at once: when a plugin is next (more), it throws or not; otherwise   *)
(* dispatch runs and throwAt is the first transport whose send throws.     *)
Faults(more, ts) ==
    IF more
    THEN {[sthrow |-> b, throwAt |-> 0] : b \in BOOLEAN}
    ELSE {[sthrow |-> FALSE, throwAt |-> t] : t \in 0..Len(ts)}

(* ---- what the caller passes to the logging methods ---- *)
Payloads == {[message |-> "x", context |-> <<9>>]}
Errors == {1}

(* ---- the public logging methods: each calls this.log(...) as an         *)
(* expression statement, so the promise log returns is dropped and the     *)
(* method returns undefined to its caller.                                 *)
(* a logging method that awaits log: its caller gets control back only when *)
(* log has left the plugin chain and every send has settled                 *)
methodAwaits(l, level, message, error, context) ==
    /\ Len(calls) < MaxCalls
    /\ \E f \in Faults(heap[loggers[l].plugins] # <<>>, heap[loggers[l].transports]) :
          LET cr == log(l, level, message, error, context, f.sthrow, f.throwAt)
          IN  calls' = Append(calls,
                  [cr EXCEPT !.seen =
                      IF cr.status = "await"
                         \/ \E j \in 1..Len(cr.sends) : cr.sends[j].st = "pending"
                      THEN "pending" ELSE "returned"])
    /\ UNCHANGED <<instance, loggers, heap, userConfig, ops, lastOp, console>>

(* a logging method that works on the configuration of the active instance *)
(* (Logger.instance) instead of this.config; it throws when there is none  *)
methodOfInstance(l, level, message, error, context) ==
    /\ Len(calls) < MaxCalls
    /\ \E f \in Faults(heap[loggers[l].plugins] # <<>>, heap[loggers[l].transports]) :
          calls' = Append(calls,
              IF instance = Null
              THEN [logger |-> l, level |-> level, message |-> message,
                    error |-> error, context |-> context,
                    status |-> "skipped", iter |-> loggers[l].plugins, idx |-> 0,
                    entry |-> NullEntry, stages |-> <<>>, sends |-> <<>>,
                    seen |-> "threw"]
              ELSE [log(instance, level, message, error, context, f.sthrow, f.throwAt)
                       EXCEPT !.logger = l, !.seen = "returned"])
    /\ UNCHANGED <<instance, loggers, heap, userConfig, ops, lastOp, console>>

method(l, level, message, error, context) ==
    /\ Len(calls) < MaxCalls
    /\ \E f \in Faults(heap[loggers[l].plugins] # <<>>, heap[loggers[l].transports]) :
          calls' = Append(calls, [log(l, level, message, error, context, f.sthrow, f.throwAt)
                                    EXCEPT !.seen = "returned"])
    /\ UNCHANGED <<instance, loggers, heap, userConfig, ops, lastOp, console>>

debug(l, a) == method(l, DEBUG, a.message, NoError, a.context)

info(l, a) == method(l, INFO, a.message, NoError, a.context)

warn(l, a) == method(l, WARN, a.message, NoError, a.context)

error(l, a, e) == method(l, ERROR, a.message, e, a.context)

(* fatal that logs at the ERROR level *)
fatalAsError(l, a, e) == method(l, ERROR, a.message, e, a.context)

fatal(l, a, e) == method(l, FATAL, a.message, e, a.context)

(* ---- Logger.log after `await plugin(processedEntry)`: the awaited value *)
(* arrives (outcome: what the plugin's result settles to), then the null    *)
(* test and the next turn of the loop.                                      *)
PluginOutcomes == {"entry", "null", "reject"}

(* the entry a plugin returns: a new value, marked here with the plugin *)
Returned(cr) == [cr.entry EXCEPT !.context = Append(@, cr.stages[Len(cr.stages)].plugin)]

(* the awaited entry is not assigned to processedEntry *)
awaitedStale(cr, outcome, sthrow, throwAt) ==
    LET k == Len(cr.stages)
    IN  CASE outcome = "reject" ->
               [cr EXCEPT !.stages[k].st = "rejected", !.status = "rejected"]
          [] outcome = "null" ->
               [cr EXCEPT !.stages[k].st = "returned", !.entry = NullEntry,
                          !.status = "dropped"]
          [] OTHER ->
               iterate([cr EXCEPT !.stages[k].st = "returned", !.stages[k].out = Returned(cr)],
                       sthrow, throwAt)

(* the null test is missing: the loop goes on with null *)
awaitedNoNullTest(cr, outcome, sthrow, throwAt) ==
    LET k == Len(cr.stages)
    IN  CASE outcome = "reject" ->
               [cr EXCEPT !.stages[k].st = "rejected", !.status = "rejected"]
          [] outcome = "null" ->
               iterate([cr EXCEPT !.stages[k].st = "returned", !.entry = NullEntry],
                       sthrow, throwAt)
          [] OTHER ->
               iterate([cr EXCEPT !.stages[k].st = "returned", !.stages[k].out = Returned(cr),
                                  !.entry = Returned(cr)],
                       sthrow, throwAt)

(* a rejection of the plugin is swallowed: the loop goes on with the entry it had *)
awaitedSwallow(cr, outcome, sthrow, throwAt) ==
    LET k == Len(cr.stages)
    IN  CASE outcome = "reject" ->
               iterate([cr EXCEPT !.stages[k].st = "rejected"], sthrow, throwAt)
          [] outcome = "null" ->
               [cr EXCEPT !.stages[k].st = "returned", !.entry = NullEntry,
                          !.status = "dropped"]
          [] OTHER ->
               iterate([cr EXCEPT !.stages[k].st = "returned", !.stages[k].out = Returned(cr),
                                  !.entry = Returned(cr)],
                       sthrow, throwAt)

(* the call record after the await: a rejection rejects the promise of log, *)
(* null ends the call, an entry becomes processedEntry and the loop goes on *)
awaited(cr, outcome, sthrow, throwAt) ==
    LET k == Len(cr.stages)
    IN  CASE outcome = "reject" ->
               [cr EXCEPT !.stages[k].st = "rejected", !.status = "rejected"]
          [] outcome = "null" ->
               [cr EXCEPT !.stages[k].st = "returned", !.entry = NullEntry,
                          !.status = "dropped"]
          [] OTHER ->
               iterate([cr EXCEPT !.stages[k].st = "returned", !.stages[k].out = Returned(cr),
                                  !.entry = Returned(cr)],
                       sthrow, throwAt)

(* processedEntry kept in one place for all calls: the entry a resuming    *)
(* call goes on with also becomes the entry of every other suspended call  *)
resumeShared(c, outcome, sthrow, throwAt) ==
    /\ calls[c].status = "await"
    /\ calls' = [d \in 1..Len(calls) |->
                    IF d = c THEN awaited(calls[c], outcome, sthrow, throwAt)
                    ELSE IF calls[d].status = "await"
                         THEN [calls[d] EXCEPT
                                  !.entry = awaited(calls[c], outcome, sthrow, throwAt).entry]
                         ELSE calls[d]]
    /\ UNCHANGED <<instance, loggers, heap, userConfig, ops, lastOp, console>>

resume(c, outcome, sthrow, throwAt) ==
    /\ calls[c].status = "await"
    /\ calls' = [calls EXCEPT ![c] = awaited(calls[c], outcome, sthrow, throwAt)]
    /\ UNCHANGED <<instance, loggers, heap, userConfig, ops, lastOp, console>>

(* the catch handler without the report *)
catchSilent(c, i) ==
    /\ calls[c].sends[i].st = "pending"
    /\ calls' = [calls EXCEPT ![c].sends[i].st = "rejected"]
    /\ UNCHANGED <<instance, loggers, heap, userConfig, ops, lastOp, console>>

(* ---- the promise send returned rejects: the catch handler of dispatch *)
(* runs, console.error naming the transport.  (A fulfilment runs no code.) *)
catch(c, i) ==
    /\ calls[c].sends[i].st = "pending"
    /\ calls' = [calls EXCEPT ![c].sends[i] =
                    [@ EXCEPT !.st = "rejected",
                              !.reported = Append(@, TransportName(calls[c].sends[i].transport))]]
    /\ UNCHANGED <<instance, loggers, heap, userConfig, ops, lastOp, console>>

(* ---- ConsoleTransport (transports/ConsoleTransport.ts) ---- *)
LOG_LEVEL_LABELS ==
    [level \in LogLevel |->
        CASE level = DEBUG -> "DEBUG"
          [] level = INFO -> "INFO"
          [] level = WARN -> "WARN"
          [] level = ERROR -> "ERROR"
          [] level = FATAL -> "FATAL"]

(* defaultFormatter(entry): label, message and the error part (the time is *)
(* not modelled)                                                           *)
defaultFormatter(entry) ==
    <<LOG_LEVEL_LABELS[entry.level], entry.message,
      IF entry.error # NoError THEN "error" ELSE "">>

(* resolveConsoleMethod(level): methods[level]; the table has the keys     *)
(* DEBUG, INFO, WARN and ERROR, any other level gives undefined            *)
resolveConsoleMethod(level) ==
    CASE level = DEBUG -> "debug"
      [] level = INFO -> "info"
      [] level = WARN -> "warn"
      [] level = ERROR -> "error"
      [] OTHER -> "undefined"

(* the formatter option: absent, or a function of the user (one that      *)
(* returns a string)                                                      *)
Formatters == {"default", "custom"}

(* ConsoleTransport.send(entry): what it wrote to the console and how its   *)
(* promise settled.  Calling undefined is a TypeError; the catch block      *)
(* rethrows it as a TransportError, which rejects the promise of the async  *)
(* function.                                                                *)
send(entry, formatter) ==
    LET message == IF formatter = "custom" THEN <<"CUSTOM FORMAT">> ELSE defaultFormatter(entry)
        consoleMethod == resolveConsoleMethod(entry.level)
    IN  IF consoleMethod = "undefined"
        THEN [entry |-> entry, formatter |-> formatter, written |-> <<>>,
              outcome |-> "rejected"]
        ELSE [entry |-> entry, formatter |-> formatter,
              written |-> <<[method |-> consoleMethod, message |-> message]>>,
              outcome |-> "fulfilled"]

ConsoleEntries ==
    {createLogEntry(level, a.message, e, a.context) :
        level \in LogLevel, a \in Payloads, e \in {NoError} \cup Errors}

Send ==
    /\ Len(console) < MaxCalls
    /\ \E entry \in ConsoleEntries, formatter \in Formatters :
          console' = Append(console, send(entry, formatter))
    /\ UNCHANGED <<instance, loggers, heap, userConfig, calls, ops, lastOp>>

(* ---- what the environment does ---- *)
Handles == 1..Len(loggers)

Initialize == \E config \in {userConfig, EmptyConfig} : init(config)

Manage ==
    \/ \E l \in Handles, p \in Plugins : addPlugin(l, p)
    \/ \E l \in Handles, t \in Transports : addTransport(l, t)
    \/ \E l \in Handles, name \in Names : removeTransport(l, name)

Call ==
    \/ \E l \in Handles, a \in Payloads : debug(l, a)
    \/ \E l \in Handles, a \in Payloads : info(l, a)
    \/ \E l \in Handles, a \in Payloads : warn(l, a)
    \/ \E l \in Handles, a \in Payloads, e \in Errors : error(l, a, e)
    \/ \E l \in Handles, a \in Payloads, e \in Errors : fatal(l, a, e)

(* the promise of a plugin settles and the suspended call goes on *)
Settle ==
    \E c \in 1..Len(calls), outcome \in PluginOutcomes :
        \E f \in Faults(calls[c].idx < Len(heap[calls[c].iter]),
                        heap[loggers[calls[c].logger].transports]) :
           resume(c, outcome, f.sthrow, f.throwAt)

(* the promise of a send rejects *)
Reject ==
    \E c \in 1..Len(calls) : \E i \in 1..Len(calls[c].sends) : catch(c, i)

Run ==
    \/ Settle
    \/ Reject

(* ---- the whole program ---- *)
Next ==
    \/ Initialize
    \/ getInstance
    \/ reset
    \/ Manage
    \/ Call
    \/ Run
    \/ Send

Spec == Init /\ [][Next]_vars

(* ---- the dispatch pipeline of one initialized logger: the logging     *)
(* methods, the stage chain and the fan-out                              *)
Pipeline ==
    \/ Initialize
    \/ Call
    \/ Run

SpecPipeline == Init /\ [][Pipeline]_vars

(* the same pipeline when every promise a plugin returned settles: the     *)
(* continuation of each suspended call is eventually run by the event loop *)
SettleOf(c) ==
    /\ c \in 1..Len(calls)
    /\ \E outcome \in PluginOutcomes :
          \E f \in Faults(calls[c].idx < Len(heap[calls[c].iter]),
                          heap[loggers[calls[c].logger].transports]) :
             resume(c, outcome, f.sthrow, f.throwAt)

SpecPipelineFair == SpecPipeline /\ \A c \in 1..MaxCalls : WF_vars(SettleOf(c))

(* ---- the lifecycle guard and the management of the collections ---- *)
Guard ==
    \/ Initialize
    \/ getInstance
    \/ reset
    \/ Manage

SpecGuard == Init /\ [][Guard]_vars

(* ---- loggers whose transport collection is changed while calls are made: *)
(* addTransport, removeTransport, one logging method and the stage chain    *)
Backends ==
    \/ Initialize
    \/ \E l \in Handles, t \in Transports : addTransport(l, t)
    \/ \E l \in Handles, name \in Names : removeTransport(l, name)
    \/ \E l \in Handles, a \in Payloads, e \in Errors : error(l, a, e)
    \/ Settle

SpecBackends == Init /\ [][Backends]_vars

(* ---- loggers that are still used after reset: init, reset, one logging *)
(* method on any logger constructed so far, and the stage chain          *)
Orphans ==
    \/ Initialize
    \/ reset
    \/ \E l \in Handles, a \in Payloads, e \in Errors : error(l, a, e)
    \/ Settle

SpecOrphans == Init /\ [][Orphans]_vars

(* ---- a ConsoleTransport used on its own ---- *)
SpecConsole == Init /\ [][Send]_vars

(* ---- loggers whose stage chain grows while calls are made; the plugin *)
(* registered later is one the configured chain may already hold        *)
LatePlugins == {2}

Stages ==
    \/ Initialize
    \/ \E l \in Handles, p \in LatePlugins : addPlugin(l, p)
    \/ \E l \in Handles, a \in Payloads, e \in Errors : error(l, a, e)
    \/ Settle

SpecStages == Init /\ [][Stages]_vars

(* ======================================================================= *)
(* Properties                                                              *)
(* ======================================================================= *)
CallIds == 1..Len(calls)
ConfigOf(c) == loggers[calls[c].logger]
ChainOf(c) == heap[calls[c].iter]
BackendsOf(c) == heap[ConfigOf(c).transports]
StageFailed(c, k) == calls[c].stages[k].st \in {"threw", "rejected"}
StageDropped(c, k) == calls[c].stages[k].st = "returned" /\ calls[c].stages[k].out = NullEntry
SendThrew(c) == \E i \in 1..Len(calls[c].sends) : calls[c].sends[i].st = "threw"

(* C1: a log call whose severity is strictly below the logger's minimum    *)
(* invokes no stage and no backend's send, and returns normally.           *)
C1_BelowMinimumSkipped ==
    \A c \in CallIds :
        calls[c].level < ConfigOf(c).minLevel =>
            /\ calls[c].stages = <<>>
            /\ calls[c].sends = <<>>
            /\ calls[c].status = "skipped"
            /\ calls[c].seen = "returned"

C1_Witness ==
    \E c \in CallIds :
        /\ calls[c].level < ConfigOf(c).minLevel
        /\ ChainOf(c) # <<>>
        /\ BackendsOf(c) # <<>>

(* C2: for a call that passes the threshold the stages run in registration *)
(* order, stage i+1 is invoked only once stage i has resolved to a record, *)
(* the first stage receives the record built from the call and stage i+1   *)
(* receives exactly the record stage i returned.                           *)
C2_StagesInOrder ==
    \A c \in CallIds :
        /\ Len(calls[c].stages) <= Len(ChainOf(c))
        /\ \A i \in 1..Len(calls[c].stages) :
              /\ calls[c].stages[i].plugin = ChainOf(c)[i]
              /\ i = 1 => calls[c].stages[i].in =
                              [level |-> calls[c].level, message |-> calls[c].message,
                               error |-> calls[c].error, context |-> calls[c].context]
              /\ i > 1 => /\ calls[c].stages[i - 1].st = "returned"
                          /\ calls[c].stages[i - 1].out # NullEntry
                          /\ calls[c].stages[i].in = calls[c].stages[i - 1].out

C2_Witness ==
    \E c \in CallIds :
        /\ Len(calls[c].stages) = 2
        /\ calls[c].stages[2].st = "returned"
        /\ calls[c].stages[2].out # calls[c].stages[2].in

(* C3: when the stage at position k returns null, no stage at a position   *)
(* greater than k is invoked for that call and no backend's send is.       *)
C3_DropStopsChain ==
    \A c \in CallIds : \A k \in 1..Len(calls[c].stages) :
        StageDropped(c, k) =>
            /\ Len(calls[c].stages) = k
            /\ calls[c].sends = <<>>
            /\ calls[c].status = "dropped"

C3_Witness ==
    \E c \in CallIds :
        /\ calls[c].stages # <<>>
        /\ StageDropped(c, 1)
        /\ Len(ChainOf(c)) > 1
        /\ BackendsOf(c) # <<>>

(* C4: when a backend's send rejects (and no send threw synchronously, the *)
(* case of C6), send was invoked on every registered backend, in the order *)
(* of the collection, each with the surviving record.                      *)
C4_FanOutIsolation ==
    \A c \in CallIds :
        ((\E i \in 1..Len(calls[c].sends) : calls[c].sends[i].st = "rejected") /\ ~SendThrew(c)) =>
            /\ Len(calls[c].sends) = Len(BackendsOf(c))
            /\ \A j \in 1..Len(calls[c].sends) :
                  /\ calls[c].sends[j].transport = BackendsOf(c)[j]
                  /\ calls[c].sends[j].entry = calls[c].entry

C4_Witness ==
    \E c \in CallIds :
        /\ Len(calls[c].sends) = 2
        /\ calls[c].sends[1].st = "rejected"
        /\ calls[c].sends[2].st = "pending"

(* C5: a rejecting send is never seen by the caller of the logging method: *)
(* the method has returned normally, the promise of log is not rejected by *)
(* it, and the failure is reported once, naming the failing backend.       *)
C5_RejectionContained ==
    \A c \in CallIds : \A i \in 1..Len(calls[c].sends) :
        /\ calls[c].sends[i].st = "rejected" =>
              /\ calls[c].seen = "returned"
              /\ calls[c].sends[i].reported = <<TransportName(calls[c].sends[i].transport)>>
              /\ ~SendThrew(c) => calls[c].status = "resolved"
        /\ calls[c].sends[i].st = "pending" => calls[c].sends[i].reported = <<>>

C5_Witness ==
    \E c \in CallIds : \E i \in 1..Len(calls[c].sends) :
        /\ calls[c].sends[i].st = "rejected"
        /\ calls[c].status = "resolved"

(* C6: a send that throws synchronously is contained: every other          *)
(* registered backend, also a later one, still has send invoked, and the   *)
(* failure is reported instead of escaping the fan-out.                    *)
C6_SyncThrowContained ==
    \A c \in CallIds : \A i \in 1..Len(calls[c].sends) :
        calls[c].sends[i].st = "threw" =>
            /\ Len(calls[c].sends) = Len(BackendsOf(c))
            /\ calls[c].sends[i].reported = <<TransportName(calls[c].sends[i].transport)>>
            /\ calls[c].status # "rejected"

(* C7: when a stage throws or rejects, no later stage is invoked and no    *)
(* backend's send is invoked for that call.                                *)
C7_StageErrorAborts ==
    \A c \in CallIds : \A k \in 1..Len(calls[c].stages) :
        StageFailed(c, k) =>
            /\ Len(calls[c].stages) = k
            /\ calls[c].sends = <<>>
            /\ calls[c].status = "rejected"

C7_Witness ==
    \E c \in CallIds :
        /\ calls[c].stages # <<>>
        /\ calls[c].stages[1].st = "rejected"
        /\ Len(ChainOf(c)) > 1
        /\ BackendsOf(c) # <<>>

(* C8: an error thrown or rejected by a stage reaches the caller of the    *)
(* logging method: the method throws it or hands back the rejected promise.*)
C8_StageErrorReachesCaller ==
    \A c \in CallIds :
        (\E k \in 1..Len(calls[c].stages) : StageFailed(c, k)) =>
            calls[c].seen \in {"threw", "promise"}

(* C9: initialize while an instance is active fails with the               *)
(* already-initialized error and changes neither the active handle nor any *)
(* logger's minimum severity, backend collection or stage chain.           *)
C9_SecondInitRejected ==
    [][(calls' = calls /\ lastOp'.op = "init" /\ instance # Null) =>
          /\ lastOp'.result = "AlreadyInitialized"
          /\ instance' = instance
          /\ loggers' = loggers
          /\ heap' = heap]_vars

C9_Witness ==
    /\ lastOp.op = "init"
    /\ lastOp.result = "AlreadyInitialized"
    /\ instance # Null
    /\ heap[loggers[instance].transports] # <<>>

(* C10: getInstance fails with the not-initialized error whenever no       *)
(* instance is active (before the first init, after a reset), and an       *)
(* instance it returns is the active one.                                  *)
C10_GetInstanceGuarded ==
    lastOp.op = "getInstance" =>
        /\ instance = Null => (lastOp.result = "NotInitialized" /\ lastOp.ret = Null)
        /\ lastOp.result = "ok" => (instance # Null /\ lastOp.ret = instance)

C10_Witness ==
    /\ lastOp.op = "getInstance"
    /\ lastOp.result = "NotInitialized"
    /\ loggers # <<>>

(* C11: from a successful init until the next reset the active instance is *)
(* the one that init returned: init returns the handle it activates, only  *)
(* reset deactivates it (no add, remove, logging step or failed init       *)
(* does), a non-null handle is never replaced by another one, and every    *)
(* getInstance in between returns exactly that handle.                     *)
C11_ActiveInstanceStable ==
    [][/\ (instance # Null /\ instance' # Null) => instance' = instance
       /\ (instance # Null /\ ~(calls' = calls /\ lastOp'.op = "reset")) => instance' = instance
       /\ (calls' = calls /\ lastOp'.op = "init" /\ lastOp'.result = "ok") =>
             (instance = Null /\ instance' # Null /\ lastOp'.ret = instance')
       /\ (calls' = calls /\ lastOp'.op = "getInstance" /\ instance # Null) =>
             (lastOp'.result = "ok" /\ lastOp'.ret = instance /\ instance' = instance)]_vars

C11_Witness ==
    /\ lastOp.op = "getInstance"
    /\ lastOp.result = "ok"
    /\ lastOp.ret = 2
    /\ ops > 0

(* C12: reset always succeeds and leaves no active instance, whatever the  *)
(* state before (so a reset with no instance changes nothing, and a second *)
(* reset changes nothing more); it touches no logger and no collection;    *)
(* an init that finds no active instance succeeds.                         *)
C12_ResetAlwaysSucceeds ==
    [][/\ (calls' = calls /\ lastOp'.op = "reset") =>
             /\ lastOp'.result = "ok"
             /\ instance' = Null
             /\ UNCHANGED <<loggers, heap, userConfig, ops>>
       /\ (calls' = calls /\ lastOp'.op = "init" /\ instance = Null) =>
             /\ lastOp'.result = "ok"
             /\ instance' = Len(loggers')
             /\ Len(loggers') = Len(loggers) + 1]_vars

C12_Witness ==
    /\ lastOp.op = "init"
    /\ lastOp.result = "ok"
    /\ Len(loggers) > 1
    /\ instance = Len(loggers)

(* C13: addTransport with the name of a registered transport fails with    *)
(* the duplicate error and leaves every collection as it was (length,      *)
(* order, the registered object in its place); an addTransport that        *)
(* succeeds added a name that was not registered.                          *)
C13_DuplicateAddRejected ==
    [][(calls' = calls /\ lastOp'.op = "addTransport") =>
          \/ /\ lastOp'.result = "Duplicate"
             /\ UNCHANGED <<heap, loggers, instance>>
             /\ \E l \in Handles, t \in Transports : exists(heap[loggers[l].transports], t)
          \/ /\ lastOp'.result = "ok"
             /\ \E l \in Handles, t \in Transports :
                   /\ ~exists(heap[loggers[l].transports], t)
                   /\ heap' = [heap EXCEPT ![loggers[l].transports] = Append(@, t)]]_vars

C13_Witness ==
    /\ lastOp.op = "addTransport"
    /\ lastOp.result = "Duplicate"
    /\ \E l \in Handles : Len(heap[loggers[l].transports]) = 2

(* C14: in every reachable state, also right after init with a configured *)
(* transport list, the names of a logger's transports are pairwise distinct. *)
C14_NamesDistinct ==
    \A l \in Handles :
        LET ts == heap[loggers[l].transports]
        IN  \A i, j \in 1..Len(ts) :
                i # j => TransportName(ts[i]) # TransportName(ts[j])

(* the transports of logger l; the step in which call c runs dispatch (the *)
(* call is issued and finds no plugin, or its last plugin has resolved);   *)
(* the transports of the logger of call c during that step (a step of a    *)
(* call changes no collection)                                             *)
TransportsOf(l) == heap[loggers[l].transports]
FansOut(c) ==
    /\ c \in 1..Len(calls')
    /\ calls'[c].status = "resolved" \/ calls'[c].sends # <<>>
    /\ c > Len(calls) \/ calls[c].status = "await"
TransportsAt(c) == heap[loggers[calls'[c].logger].transports]

(* C15: addTransport with an unregistered name succeeds and appends the    *)
(* transport at the end of the collection, the transports before it stay   *)
(* as they were; and a call issued after a successful addTransport (the    *)
(* last management call before it) whose entry reaches dispatch has send   *)
(* invoked on every transport of the collection, the new one included.     *)
C15_AddAppendsAndDelivers ==
    [][/\ \A l \in Handles, t \in Transports :
             (addTransport(l, t) /\ ~exists(TransportsOf(l), t)) =>
                 /\ lastOp'.result = "ok"
                 /\ loggers' = loggers
                 /\ heap'[loggers[l].transports] = Append(TransportsOf(l), t)
       /\ \A c \in 1..Len(calls') :
             (c > Len(calls) /\ FansOut(c) /\ lastOp.op = "addTransport" /\ lastOp.result = "ok") =>
                 \A i \in 1..Len(TransportsAt(c)) :
                     \E j \in 1..Len(calls'[c].sends) :
                         calls'[c].sends[j].transport = TransportsAt(c)[i]]_vars

(* C16: removeTransport with a name no registered transport has raises no  *)
(* error and leaves the collection of every logger with the same members   *)
(* in the same order, so a fan-out after it invokes the same sends as one  *)
(* before it would.                                                        *)
C16_RemoveUnknownIsNoOp ==
    [][\A l \in Handles, name \in Names :
          (/\ removeTransport(l, name)
           /\ \A i \in 1..Len(TransportsOf(l)) : TransportName(TransportsOf(l)[i]) # name) =>
              /\ lastOp'.result = "ok"
              /\ Len(loggers') = Len(loggers)
              /\ \A m \in Handles : heap'[loggers'[m].transports] = TransportsOf(m)
              /\ \A k \in 0..Len(TransportsOf(l)) :
                    dispatch(NullEntry, heap'[loggers'[l].transports], k)
                        = dispatch(NullEntry, TransportsOf(l), k)]_vars

C16_Witness ==
    /\ lastOp.op = "removeTransport"
    /\ \E l \in Handles :
          /\ loggers[l].transports = OwnT(l)
          /\ TransportsOf(l) = <<1, 2>>
          /\ \E c \in CallIds : calls[c].logger = l /\ Len(calls[c].sends) = 2

(* C17: after removeTransport(name) the collection is the old one without  *)
(* the transports of that name, the others in their order; an addTransport *)
(* of that name is accepted again; and a fan-out invokes send only on the  *)
(* transports the collection holds at that time, so never on a removed one.*)
C17_RemovedIsGone ==
    [][/\ \A l \in Handles, name \in Names :
             removeTransport(l, name) =>
                 /\ lastOp'.result = "ok"
                 /\ heap'[loggers'[l].transports]
                        = SelectSeq(TransportsOf(l), LAMBDA t : TransportName(t) # name)
                 /\ \A t \in Transports :
                       TransportName(t) = name => ~exists(heap'[loggers'[l].transports], t)
       /\ \A l \in Handles, t \in Transports :
             (addTransport(l, t) /\ ~exists(TransportsOf(l), t)) => lastOp'.result = "ok"
       /\ \A c \in 1..Len(calls') :
             FansOut(c) =>
                 /\ Len(calls'[c].sends) <= Len(TransportsAt(c))
                 /\ \A j \in 1..Len(calls'[c].sends) :
                       calls'[c].sends[j].transport = TransportsAt(c)[j]]_vars

C17_Witness ==
    \E l \in Handles :
        /\ loggers[l].minLevel = WARN
        /\ loggers[l].transports = OwnT(l)
        /\ TransportsOf(l) = <<2, 3>>
        /\ \E c \in CallIds :
              /\ calls[c].logger = l
              /\ Len(calls[c].sends) = 2
              /\ calls[c].sends[1].transport = 2
              /\ calls[c].sends[2].transport = 3
(* a call that has left log: skipped, dropped, rejected, or dispatch has run *)
Finished(c) == calls[c].status \in {"skipped", "dropped", "resolved", "rejected"}

(* C18: addPlugin appends the plugin at the end of the chain.  The k-th    *)
(* plugin a call invokes is the k-th of the chain, so an added plugin runs *)
(* after all registered before it; a call reaching dispatch has run every  *)
(* plugin registered by then, so one issued after the addition runs the    *)
(* new plugin last; a call that had left log when the plugin was added     *)
(* never invokes it.                                                       *)
C18_AddPluginAppends ==
    [][/\ \A l \in Handles, p \in Plugins :
             addPlugin(l, p) =>
                 /\ heap'[loggers[l].plugins] = Append(heap[loggers[l].plugins], p)
                 /\ loggers' = loggers
       /\ \A c \in 1..Len(calls') :
             /\ \A k \in 1..Len(calls'[c].stages) :
                   /\ k <= Len(heap'[calls'[c].iter])
                   /\ calls'[c].stages[k].plugin = heap'[calls'[c].iter][k]
             /\ FansOut(c) => Len(calls'[c].stages) = Len(heap[calls'[c].iter])
       /\ \A c \in CallIds : Finished(c) => calls'[c].stages = calls[c].stages]_vars

C18_Witness ==
    \E c \in CallIds, d \in CallIds :
        /\ c < d
        /\ calls[c].logger = calls[d].logger
        /\ calls[c].status = "resolved"
        /\ calls[d].status = "resolved"
        /\ Len(calls[c].stages) < Len(ChainOf(c))
        /\ Len(calls[d].stages) = Len(ChainOf(d))
(* the entry of call c has passed the threshold and every plugin of the chain *)
Survived(c) ==
    /\ calls[c].level >= ConfigOf(c).minLevel
    /\ Len(calls[c].stages) = Len(ChainOf(c))
    /\ \A k \in 1..Len(calls[c].stages) :
          calls[c].stages[k].st = "returned" /\ calls[c].stages[k].out # NullEntry

(* C19: for an entry that survives the chain, send is invoked exactly once *)
(* on each registered transport, every time with the entry the last plugin *)
(* returned; no send is repeated and a failure is reported at most once.   *)
C19_EachBackendExactlyOnce ==
    \A c \in CallIds :
        Survived(c) =>
            /\ \A i \in 1..Len(BackendsOf(c)) :
                  Cardinality({j \in 1..Len(calls[c].sends) :
                                  calls[c].sends[j].transport = BackendsOf(c)[i]}) = 1
            /\ \A j \in 1..Len(calls[c].sends) :
                  /\ calls[c].sends[j].entry = calls[c].entry
                  /\ calls[c].stages # <<>> =>
                        calls[c].sends[j].entry = calls[c].stages[Len(calls[c].stages)].out
                  /\ Len(calls[c].sends[j].reported) <= 1

(* C20: dispatch invokes send on every registered transport in one step,   *)
(* before the outcome of any send is known: when the fan-out step is over  *)
(* (no send having thrown) every transport has a send and all of them are  *)
(* still pending; no send is invoked in a later step, so a send that stays *)
(* pending for ever holds back no other send of that call, and the fan-out *)
(* of another call does not depend on it.                                  *)
C20_AllInvokedBeforeAwait ==
    [][\A c \in 1..Len(calls') :
          /\ (FansOut(c) /\ \A j \in 1..Len(calls'[c].sends) : calls'[c].sends[j].st # "threw") =>
                /\ Len(calls'[c].sends) = Len(TransportsAt(c))
                /\ \A j \in 1..Len(calls'[c].sends) :
                      /\ calls'[c].sends[j].st = "pending"
                      /\ calls'[c].sends[j].transport = TransportsAt(c)[j]
          /\ (c \in CallIds /\ ~FansOut(c)) =>
                Len(calls'[c].sends) = Len(calls[c].sends)]_vars

C20_Witness ==
    \E c \in CallIds, d \in CallIds :
        /\ c < d
        /\ calls[c].logger = calls[d].logger
        /\ Len(calls[c].sends) = 2
        /\ \A j \in 1..2 : calls[c].sends[j].st = "pending"
        /\ Len(calls[d].sends) = 2
        /\ calls[d].status = "resolved"
(* C21: a logging method has returned to its caller while the call is      *)
(* still suspended in a plugin or while sends of it are still pending: the *)
(* caller never waits for a plugin or a transport to settle.               *)
C21_CallerNeverWaits ==
    \A c \in CallIds :
        (calls[c].status = "await"
            \/ \E j \in 1..Len(calls[c].sends) : calls[c].sends[j].st = "pending") =>
                calls[c].seen = "returned"

C21_Witness ==
    \E c \in CallIds, d \in CallIds :
        /\ c < d
        /\ calls[c].status = "await"
        /\ calls[c].seen = "returned"
        /\ \E j \in 1..Len(calls[d].sends) : calls[d].sends[j].st = "pending"
(* a plugin of call c dropped the entry or failed; every transport of the  *)
(* logger of call c has had send invoked with the entry of the call        *)
StageStopped(c) ==
    \E k \in 1..Len(calls[c].stages) : StageFailed(c, k) \/ StageDropped(c, k)
AllSent(c) ==
    \A i \in 1..Len(BackendsOf(c)) :
        \E j \in 1..Len(calls[c].sends) :
            /\ calls[c].sends[j].transport = BackendsOf(c)[i]
            /\ calls[c].sends[j].entry = calls[c].entry

(* C22: a call is gated out exactly when its level is below the minimum    *)
(* (the default minimum is DEBUG, which gates out nothing); and a call at  *)
(* or above the minimum whose plugins all resolve to an entry eventually   *)
(* has send invoked on every registered transport with the resulting entry.*)
C22_GateIsAtLeastMinimum ==
    /\ [](\A c \in CallIds :
             calls[c].status = "skipped" <=> calls[c].level < ConfigOf(c).minLevel)
    /\ [](\A l \in Handles :
             (loggers[l].transports = OwnT(l) /\ loggers[l].plugins = OwnP(l)) =>
                 loggers[l].minLevel = DEBUG)
    /\ \A c \in 1..MaxCalls :
          (c \in CallIds /\ calls[c].level >= ConfigOf(c).minLevel)
              ~> (c \in CallIds /\ (StageStopped(c) \/ AllSent(c)))
(* the step issues a call with these arguments of log *)
Issues(level, message, err, context) ==
    /\ Len(calls') = Len(calls) + 1
    /\ calls'[Len(calls')].level = level
    /\ calls'[Len(calls')].message = message
    /\ calls'[Len(calls')].error = err
    /\ calls'[Len(calls')].context = context

(* C23: debug, info, warn, error and fatal log at the level of their name  *)
(* with the message, error (none for debug, info, warn) and context they   *)
(* were given; when no plugin ran, the entry every send receives has that  *)
(* level, message, error and context.                                      *)
C23_MethodGivesItsLevel ==
    [][/\ \A l \in Handles, a \in Payloads :
             /\ debug(l, a) => Issues(DEBUG, a.message, NoError, a.context)
             /\ info(l, a) => Issues(INFO, a.message, NoError, a.context)
             /\ warn(l, a) => Issues(WARN, a.message, NoError, a.context)
             /\ \A e \in Errors :
                   /\ error(l, a, e) => Issues(ERROR, a.message, e, a.context)
                   /\ fatal(l, a, e) => Issues(FATAL, a.message, e, a.context)
       /\ \A c \in 1..Len(calls') :
             calls'[c].stages = <<>> =>
                 \A j \in 1..Len(calls'[c].sends) :
                     calls'[c].sends[j].entry =
                         [level |-> calls'[c].level, message |-> calls'[c].message,
                          error |-> calls'[c].error, context |-> calls'[c].context]]_vars

C23_Witness ==
    \E c \in CallIds :
        /\ calls[c].level = FATAL
        /\ calls[c].stages = <<>>
        /\ Len(calls[c].sends) = 2
        /\ calls[c].sends[2].entry.level = FATAL
        /\ calls[c].sends[2].entry.error \in Errors
(* C24: with no plugin registered the sends of a call are invoked in the   *)
(* step that issues it: when a call is issued, every earlier call of that  *)
(* logger that found no plugin has had its sends invoked already, and no   *)
(* send of a call that has left log is invoked later; so each transport    *)
(* gets the entry of call n before the entry of call n+1.                  *)
C24_SendsInCallOrder ==
    [][/\ \A c \in 1..Len(calls') :
             (/\ c > Len(calls)
              /\ calls'[c].level >= loggers[calls'[c].logger].minLevel
              /\ heap[calls'[c].iter] = <<>>) =>
                 /\ FansOut(c)
                 /\ calls'[c].stages = <<>>
                 /\ \A b \in CallIds :
                       (calls[b].logger = calls'[c].logger /\ calls[b].stages = <<>>) =>
                           Finished(b)
       /\ \A b \in CallIds :
             Finished(b) => Len(calls'[b].sends) = Len(calls[b].sends)]_vars

C24_Witness ==
    \E c \in CallIds, d \in CallIds :
        /\ c < d
        /\ calls[c].logger = calls[d].logger
        /\ calls[c].stages = <<>> /\ calls[d].stages = <<>>
        /\ Len(calls[c].sends) = 2 /\ Len(calls[d].sends) = 2
        /\ calls[c].level # calls[d].level
(* C25: for every level of the scale ConsoleTransport.send writes the      *)
(* formatted entry with exactly one call of a console method, the one of   *)
(* that level (debug, info, warn, error), and its promise is fulfilled.    *)
C25_ConsoleWritesEveryLevel ==
    \A i \in 1..Len(console) :
        /\ console[i].outcome = "fulfilled"
        /\ Len(console[i].written) = 1
        /\ console[i].entry.level = DEBUG => console[i].written[1].method = "debug"
        /\ console[i].entry.level = INFO => console[i].written[1].method = "info"
        /\ console[i].entry.level = WARN => console[i].written[1].method = "warn"
        /\ console[i].entry.level = ERROR => console[i].written[1].method = "error"
        /\ console[i].formatter = "default" =>
              console[i].written[1].message = defaultFormatter(console[i].entry)
(* the configuration of logger l as a value, before and after the step; the *)
(* arrays of the LoggerConfig value the caller passed to init               *)
ConfigValue(l) ==
    [minLevel |-> loggers[l].minLevel,
     transports |-> heap[loggers[l].transports],
     plugins |-> heap[loggers[l].plugins]]
ConfigValueNext(l) ==
    [minLevel |-> loggers'[l].minLevel,
     transports |-> heap'[loggers'[l].transports],
     plugins |-> heap'[loggers'[l].plugins]]
CallerValueKept ==
    /\ userConfig.transports # NoArray => heap'[userConfig.transports] = heap[userConfig.transports]
    /\ userConfig.plugins # NoArray => heap'[userConfig.plugins] = heap[userConfig.plugins]

(* C26: the minimum level, transports and plugins of a logger change only  *)
(* by an addPlugin, addTransport or removeTransport on that logger: such a *)
(* call on logger l leaves every other logger and the caller's             *)
(* configuration value as they were, and any other step (init, failed      *)
(* init, getInstance, reset, a step of a log call) leaves every logger as  *)
(* it was.                                                                 *)
C26_ConfigChangesOnlyByOwnOps ==
    [][/\ \A l \in Handles :
             ((\E p \in Plugins : addPlugin(l, p))
                 \/ (\E t \in Transports : addTransport(l, t))
                 \/ (\E name \in Names : removeTransport(l, name))) =>
                     /\ CallerValueKept
                     /\ \A m \in Handles \ {l} : ConfigValueNext(m) = ConfigValue(m)
       /\ (calls' # calls \/ lastOp'.op \in {"init", "getInstance", "reset"}) =>
             \A l \in Handles : ConfigValueNext(l) = ConfigValue(l)]_vars
(* the entry of a call (record cr) after its first k plugins returned: the *)
(* entry made from the arguments of the call, marked by those plugins      *)
OwnEntry(cr, k) ==
    [level |-> cr.level, message |-> cr.message, error |-> cr.error,
     context |-> cr.context \o [i \in 1..k |-> cr.stages[i].plugin]]

(* C27: calls in flight together are independent: a step of one call (or   *)
(* the issue of a new one) changes no other call, and every plugin and     *)
(* every send of a call receives the entry made from that call's own       *)
(* arguments and passed through that call's own plugins.                   *)
C27_CallsIndependent ==
    [][/\ \A c \in CallIds, d \in CallIds :
             (c # d /\ calls'[c] # calls[c]) => calls'[d] = calls[d]
       /\ Len(calls') > Len(calls) => \A c \in CallIds : calls'[c] = calls[c]
       /\ \A c \in 1..Len(calls') :
             /\ \A k \in 1..Len(calls'[c].stages) :
                   calls'[c].stages[k].in = OwnEntry(calls'[c], k - 1)
             /\ \A j \in 1..Len(calls'[c].sends) :
                   calls'[c].sends[j].entry = OwnEntry(calls'[c], Len(calls'[c].stages))]_vars

C27_Witness ==
    \E c \in CallIds, d \in CallIds :
        /\ c < d
        /\ calls[c].logger = calls[d].logger
        /\ calls[c].status = "await"
        /\ calls[d].status = "resolved"
        /\ Len(calls[d].stages) = 2
        /\ Len(calls[d].sends) = 2
        /\ calls[c].level # calls[d].level
(* the plugins of the logger of call c as they are now *)
ChainNow(c) == heap[loggers[calls[c].logger].plugins]

(* C28: the chain is read live.  When the plugin a suspended call awaits   *)
(* returns an entry, the call goes on with the next plugin of the logger's *)
(* chain as it is at that moment, also if that plugin was added after the  *)
(* call was issued; only when the chain as it is then has no further       *)
(* plugin does the call dispatch.                                          *)
C28_ChainReadLive ==
    [][\A c \in CallIds :
          LET k == Len(calls[c].stages)
          IN  (/\ calls[c].status = "await"
               /\ calls'[c] # calls[c]
               /\ calls'[c].stages[k].st = "returned"
               /\ calls'[c].stages[k].out # NullEntry) =>
                  IF k < Len(ChainNow(c))
                  THEN /\ Len(calls'[c].stages) = k + 1
                       /\ calls'[c].stages[k + 1].plugin = ChainNow(c)[k + 1]
                       /\ calls'[c].stages[k + 1].in = calls'[c].stages[k].out
                       /\ calls'[c].sends = <<>>
                  ELSE /\ Len(calls'[c].stages) = k
                       /\ FansOut(c)]_vars

C28_Witness ==
    \E c \in CallIds, d \in CallIds :
        /\ c < d
        /\ calls[c].logger = calls[d].logger
        /\ calls[d].status = "resolved"
        /\ Len(calls[d].stages) = 2
        /\ Len(calls[c].stages) = 3
        /\ calls[c].stages[3].plugin \in LatePlugins
(* C29: the transports that receive the entry of a call are those of the   *)
(* collection at the moment its chain completes: in the step in which the  *)
(* call dispatches, send is invoked on exactly the transports the          *)
(* collection holds then, in its order (so not on one removed while the    *)
(* call was suspended, and on one added meanwhile), and once the call has  *)
(* dispatched no add or remove changes its sends.                          *)
C29_BackendsAtFanOut ==
    [][/\ \A c \in 1..Len(calls') :
             FansOut(c) =>
                 /\ Len(calls'[c].sends) = Len(TransportsAt(c))
                 /\ \A j \in 1..Len(calls'[c].sends) :
                       calls'[c].sends[j].transport = TransportsAt(c)[j]
       /\ \A c \in CallIds :
             Finished(c) =>
                 /\ Len(calls'[c].sends) = Len(calls[c].sends)
                 /\ \A j \in 1..Len(calls[c].sends) :
                       calls'[c].sends[j].transport = calls[c].sends[j].transport]_vars
(* C30: reset (and a following init) writes only the handle: every logger  *)
(* constructed so far keeps its configuration and every call its record;   *)
(* a call on any logger, active or not, is gated by that logger's minimum, *)
(* runs that logger's plugins and dispatches to that logger's transports,  *)
(* also when it was in flight during the reset.                            *)
C30_ResetClearsOnlyHandle ==
    [][/\ (calls' = calls /\ lastOp'.op \in {"reset", "init"}) =>
             /\ heap' = heap
             /\ \A l \in Handles : loggers'[l] = loggers[l]
       /\ \A c \in 1..Len(calls') :
             LET l == calls'[c].logger
             IN  /\ calls'[c].status = "skipped" <=> calls'[c].level < loggers[l].minLevel
                 /\ calls'[c].seen = "returned"
                 /\ \A k \in 1..Len(calls'[c].stages) :
                       calls'[c].stages[k].plugin = heap[loggers[l].plugins][k]
                 /\ \A j \in 1..Len(calls'[c].sends) :
                       calls'[c].sends[j].transport = heap[loggers[l].transports][j]
                 /\ (calls'[c].status = "resolved") =>
                       /\ Len(calls'[c].stages) = Len(heap[loggers[l].plugins])
                       /\ Len(calls'[c].sends) = Len(heap[loggers[l].transports])]_vars

C30_Witness ==
    \E c \in CallIds, d \in CallIds :
        /\ d < c
        /\ calls[d].logger = 2
        /\ calls[c].logger = 1
        /\ instance # 1
        /\ calls[c].status = "resolved"
        /\ Len(calls[c].stages) = 2
        /\ Len(calls[c].sends) = 2

(* the stage at which a call ended: it threw, rejected or gave null *)
StageEnded(c) ==
    \E k \in 1..Len(calls[c].stages) : StageFailed(c, k) \/ StageDropped(c, k)

(* the record cr of a call follows the chain and the transports of its    *)
(* logger as they are in the next state: gated by minLevel, one stage per *)
(* plugin from the first on in array order, and, when the chain is        *)
(* through, one send per transport in array order (up to a send that      *)
(* throws at once)                                                        *)
RunsInFull(cr) ==
    LET chain == heap'[loggers'[cr.logger].plugins]
        ts == heap'[loggers'[cr.logger].transports]
    IN  /\ cr.status = "skipped" <=> cr.level < loggers'[cr.logger].minLevel
        /\ cr.status = "skipped" => cr.stages = <<>> /\ cr.sends = <<>>
        /\ Len(cr.stages) <= Len(chain)
        /\ \A k \in 1..Len(cr.stages) : cr.stages[k].plugin = chain[k]
        /\ cr.status # "skipped" /\ chain # <<>> =>
               /\ cr.stages # <<>>
               /\ cr.stages[1].in = createLogEntry(cr.level, cr.message, cr.error, cr.context)
        /\ cr.status = "await" => cr.stages[Len(cr.stages)].st = "running"
        /\ cr.status = "resolved" =>
               /\ Len(cr.stages) = Len(chain)
               /\ \A k \in 1..Len(cr.stages) : cr.stages[k].st = "returned"
               /\ Len(cr.sends) = Len(ts)
        /\ cr.sends # <<>> => Len(cr.stages) = Len(chain)
        /\ Len(cr.sends) <= Len(ts)
        /\ \A j \in 1..Len(cr.sends) :
               /\ cr.sends[j].transport = ts[j]
               /\ cr.sends[j].entry = cr.entry
               /\ j < Len(cr.sends) => cr.sends[j].st # "threw"

(* C31: once a call has a stage that threw, rejected or gave null, no step *)
(* changes the logger of that call: its stage chain (the failed stage      *)
(* included), its transports and its minimum level stay as they are; and   *)
(* every call made on that logger from then on is gated by the minimum     *)
(* level, starts at the first stage of the whole chain with a fresh entry, *)
(* and, in every later step, follows the chain and the transports in full. *)
C31_StageFailureLeavesLogger ==
    [][\A c \in CallIds : StageEnded(c) =>
          LET l == calls[c].logger
          IN  /\ loggers'[l] = loggers[l]
              /\ heap'[loggers[l].plugins] = heap[loggers[l].plugins]
              /\ heap'[loggers[l].transports] = heap[loggers[l].transports]
              /\ \A d \in 1..Len(calls') :
                     (d > c /\ calls'[d].logger = l) => RunsInFull(calls'[d])]_vars

C31_Witness ==
    \E c \in CallIds, d \in CallIds :
        /\ c < d
        /\ calls[d].logger = calls[c].logger
        /\ calls[c].stages # <<>>
        /\ calls[c].stages[1].st = "threw"
        /\ calls[d].status = "resolved"
        /\ Len(calls[d].stages) = 2
        /\ calls[d].stages[1].plugin = calls[c].stages[1].plugin
        /\ Len(calls[d].sends) = 2

(* a send that failed: its promise rejected, or send threw at once *)
SendFailed(cr, j) == cr.sends[j].st \in {"rejected", "threw"}

(* the record cr of a call has left the stage chain with an entry *)
Passed(cr) ==
    /\ cr.level >= loggers[cr.logger].minLevel
    /\ Len(cr.stages) = Len(heap[cr.iter])
    /\ \A k \in 1..Len(cr.stages) :
          cr.stages[k].st = "returned" /\ cr.stages[k].out # NullEntry

(* C32: once a send of a transport has failed in some call, no step changes *)
(* the transports of that logger and the transport is still at the position *)
(* it was invoked at; every call of the logger whose entry leaves the stage *)
(* chain from then on invokes send on that transport again, at the same     *)
(* position; and every failed send has its own console.error report naming  *)
(* its transport.                                                           *)
C32_FailedBackendStays ==
    [][\A c \in CallIds : \A j \in 1..Len(calls[c].sends) :
          SendFailed(calls[c], j) =>
             LET l == calls[c].logger
                 t == calls[c].sends[j].transport
             IN  /\ loggers'[l] = loggers[l]
                 /\ heap'[loggers[l].transports] = heap[loggers[l].transports]
                 /\ j <= Len(TransportsOf(l)) /\ TransportsOf(l)[j] = t
                 /\ \A d \in 1..Len(calls') :
                        (/\ calls'[d].logger = l
                         /\ Passed(calls'[d])
                         /\ (d \in CallIds => ~Passed(calls[d]))) =>
                            /\ Len(calls'[d].sends) >= j
                            /\ calls'[d].sends[j].transport = t
                 /\ \A d \in 1..Len(calls') : \A i \in 1..Len(calls'[d].sends) :
                        SendFailed(calls'[d], i) =>
                            calls'[d].sends[i].reported =
                                <<TransportName(calls'[d].sends[i].transport)>>]_vars
====
